---- MODULE Spec2Model ----
(***************************************************************************)
(* Model of bin/project.ts (the page deployment tool): the deploy and      *)
(* clean commands, the retention pruning of the GitHub deployment registry *)
(* and of the Cloudflare Pages deployment registry, and the generic API    *)
(* client they call.  Every awaited request is one step; the two remote    *)
(* registries are part of the state.                                       *)
(***************************************************************************)
EXTENDS Integers, Sequences, FiniteSets, TLC

VARIABLES
    environment,        \* --environment option
    head,               \* --head option
    maxDeployments,     \* Number(options.maxDeployments)
    GITHUB_REF,         \* process.env.GITHUB_SHA || null
    processEnv,         \* names that are set in the environment of the process
    ghDeployments,      \* GitHub: deployment records, in the order the API lists them
    ghEnvironments,     \* GitHub: names of the environment resources
    pagesDeployments,   \* Cloudflare: page deployments, in the order the API lists them
    pageConfigs,        \* Cloudflare: deployment_configs of the pages project
    cmd,                \* command of the current invocation
    pc,                 \* position of the invocation
    stage,              \* which call of the prune functions is running
    result,             \* outcome of the last finished invocation
    runs,               \* invocations started so far
    pruneMax,           \* maxDeployments parameter of the running prune
    extraDeployments,   \* extraDeployments still to process by the running loop
    deploymentId,       \* createGithubDeployment: deploymentId
    pageData,           \* addPageVariables: pageData
    patchBody,          \* addPageVariables: body of the PATCH request
    initCalls,          \* initGithubDeployment: one entry per call that returned
    buildDir,           \* fs: the build output directory exists
    version,            \* the copy of the script that runs
    pending,            \* requests whose fetch was called and is not answered
    previous,           \* what the invocation before this one was and left
    calls               \* requests and commands issued by the current invocation

options == <<environment, head, maxDeployments, GITHUB_REF, processEnv>>
\* what a step that awaits its own request leaves alone
awaited == <<options, version, pending, previous>>
inputs == <<awaited, buildDir>>
remote == <<ghDeployments, ghEnvironments, pagesDeployments, pageConfigs>>
locals == <<pruneMax, extraDeployments, deploymentId, pageData, patchBody>>
vars == <<environment, head, maxDeployments, GITHUB_REF, processEnv, ghDeployments,
          ghEnvironments, pagesDeployments, pageConfigs, cmd, pc, stage, result,
          runs, pruneMax, extraDeployments, deploymentId, pageData, patchBody,
          initCalls, buildDir, version, pending, previous, calls>>

----------------------------------------------------------------------------
(* Bounds of the model *)

MaxGh == 2
MaxPages == 2
MaxM == 3
MaxRuns == 2

Envs == {"master", "feature-x"}

\* the copies of the script: the latest one, and the earlier one whose prune
\* loop is a forEach with an async callback
LATEST == "bin/project.ts"
EARLIER == "unnamed/part_002"
Versions == {LATEST, EARLIER}
NULL == "null"

\* the invocation before was not a teardown that went through
NoTeardown == [teardown |-> FALSE, left |-> <<>>]
SHA == "4f2a9c1"

Min(a, b) == IF a < b THEN a ELSE b
Max(a, b) == IF a > b THEN a ELSE b

OtherEnv(e) == CHOOSE o \in Envs : o # e

----------------------------------------------------------------------------
(* Remote records *)

GhRecord(i, e, r) ==
    [id |-> i, ref |-> r, environment |-> e, updated_at |-> i, status |-> "none"]

PageRecord(i, b) ==
    [id |-> i, created_on |-> i, trigger |-> "branch", branch |-> b]

Ids(list) == [k \in 1..Len(list) |-> list[k].id]

IdSet(list) == {list[k].id : k \in 1..Len(list)}

Without(list, i) == SelectSeq(list, LAMBDA r : r.id # i)

SetStatus(list, i, st) ==
    [k \in 1..Len(list) |-> IF list[k].id = i THEN [list[k] EXCEPT !.status = st]
                                              ELSE list[k]]

\* the sections of a pages project as first created on the platform
InitialConfigs ==
    [s \in {"preview", "production"} |->
        [compatibility_date |-> "2021-11-01",
         compatibility_flags |-> <<>>,
         env_vars |-> (IF s = "production" THEN "PROD_KEY" ELSE "PREV_KEY")
                        :> [value |-> "old"]]]

----------------------------------------------------------------------------
(* genericAPI *)

ok(status) == status >= 200 /\ status <= 299

\* apiReturn gives every 404 the empty result
apiReturnAbsent(status, method) ==
    IF status = 204 \/ status = 404 THEN "null"
    ELSE IF ~ok(status) THEN "throw"
    ELSE "json"

\* apiReturn without the test of result.ok
apiReturnLenient(status, method) ==
    IF status = 204 THEN "null"
    ELSE IF status = 404 /\ (method = "DELETE" \/ method = "GET") THEN "null"
    ELSE "json"

\* apiReturn without the tolerated 404
apiReturnStrict(status, method) ==
    IF status = 204 THEN "null"
    ELSE IF ~ok(status) THEN "throw"
    ELSE "json"

\* apiReturn: "null", "throw" or "json" (the parsed body)
apiReturn(status, method) ==
    IF status = 204 THEN "null"
    ELSE IF status = 404 /\ (method = "DELETE" \/ method = "GET") THEN "null"
    ELSE IF ~ok(status) THEN "throw"
    ELSE "json"

\* the statuses the two services answer a request with
Responses(method, what, present) ==
    CASE method = "GET" -> IF present THEN {200, 500} ELSE {404}
      [] method = "DELETE" -> IF present THEN {204, 500} ELSE {404}
      [] method = "POST" /\ what = "inactive" -> {201, 500}
      [] method = "POST" -> {201, 204, 500}
      [] OTHER -> {200, 500}

Call(fn, method, what, id, status, listed) ==
    [fn |-> fn, stage |-> stage, method |-> method, what |-> what, id |-> id,
     status |-> status, listed |-> listed, max |-> pruneMax]

----------------------------------------------------------------------------
(* Array.prototype.sort and Array.prototype.slice *)

\* the comparator of both sort calls: its body is an expression statement, so
\* it returns undefined, which sort reads as +0
compareFn(x, y) == 0

RECURSIVE InsertSorted(_, _)
InsertSorted(x, s) ==
    IF s = <<>> THEN <<x>>
    ELSE IF compareFn(Head(s), x) <= 0 THEN <<Head(s)>> \o InsertSorted(x, Tail(s))
    ELSE <<x>> \o s

\* stable sort
RECURSIVE Sort(_)
Sort(s) ==
    IF s = <<>> THEN <<>>
    ELSE InsertSorted(s[Len(s)], Sort(SubSeq(s, 1, Len(s) - 1)))

RelIndex(i, len) == IF i < 0 THEN Max(len + i, 0) ELSE Min(i, len)

Slice(s, start, end) ==
    LET from == RelIndex(start, Len(s))
        to == RelIndex(end, Len(s))
    IN IF from < to THEN SubSeq(s, from + 1, to) ELSE <<>>

----------------------------------------------------------------------------
(* Initial state: the options of the command line and the two registries,  *)
(* which list their records most recent first                              *)

Init ==
    /\ environment \in Envs
    /\ head = "master"
    /\ maxDeployments \in 0..MaxM
    /\ GITHUB_REF \in {NULL, SHA}
    /\ processEnv = {}
    /\ \E n \in 0..MaxGh :
          ghDeployments =
              [k \in 1..n |-> GhRecord(n + 1 - k, environment, environment)]
              \o <<GhRecord(100, OtherEnv(environment), OtherEnv(environment))>>
    /\ ghEnvironments = Envs
    /\ \E n \in 0..MaxPages :
          pagesDeployments =
              [k \in 1..n |-> PageRecord(n + 1 - k, environment)]
              \o <<PageRecord(100, OtherEnv(environment))>>
    /\ pageConfigs = InitialConfigs
    /\ cmd = "none"
    /\ pc = "idle"
    /\ stage = "none"
    /\ result = "none"
    /\ runs = 0
    /\ pruneMax = 0
    /\ extraDeployments = <<>>
    /\ deploymentId = 0
    /\ pageData = NULL
    /\ patchBody = NULL
    /\ initCalls = <<>>
    /\ buildDir = FALSE
    /\ version = LATEST
    /\ pending = {}
    /\ previous = NoTeardown
    /\ calls = <<>>

----------------------------------------------------------------------------
(* main: the deploy and clean commands *)

\* names given with --variable and --secret
variables == <<"MODE">>
secrets == <<"API_KEY">>

\* an error nobody catches rejects the promise of the command
Throw == /\ pc' = "idle"
         /\ result' = "failed"

Return == /\ pc' = "idle"
          /\ result' = "done"

\* process.exit(1)
Exit == /\ pc' = "idle"
        /\ result' = "exited"

\* the exit code of the process, by the way the invocation ended
exitCode == CASE result = "done" -> 0
              [] result = "exited" -> 1
              [] result = "failed" -> 1    \* unhandled rejection
              [] OTHER -> -1               \* still running

TOKENS == {"GITHUB_TOKEN", "CLOUDFLARE_API_TOKEN", "CLOUDFLARE_ACCOUNT_ID"}

\* checkEnvironment without its tests
checkEnvironmentLenient(env) == TRUE

\* checkEnvironment does not exit
checkEnvironment(env) == TOKENS \subseteq env

\* checkSecrets and checkEnvVars do not exit
checkSecrets(names, env) == \A k \in 1..Len(names) : names[k] \in env

\* the environments an invocation is started in: at most one name is unset;
\* clean takes no --secret and no --variable
ProcessEnvs(c) ==
    LET all == TOKENS \cup {"MODE", "API_KEY"}
        optional == IF c = "deploy" THEN all ELSE TOKENS
    IN {all} \cup {all \ {n} : n \in optional}

\* a request whose fetch was called and has not been answered
PENDING == 0

\* the synchronous part of a command: the preAction hook, then the action up
\* to Promise.all(checks)
Main(c, env) ==
    /\ pc = "idle"
    /\ runs < MaxRuns
    /\ cmd' = c
    /\ runs' = runs + 1
    /\ processEnv' = env
    \* a clean that follows a clean of a preview environment which returned
    \* with every call answered with success starts from what that one left
    /\ previous' = IF /\ c = "clean" /\ cmd = "clean" /\ environment # head
                      /\ result = "done"
                      /\ \A k \in DOMAIN calls : calls[k].status \in {200, 201, 204}
                   THEN [teardown |-> TRUE,
                         left |-> <<ghDeployments, pagesDeployments, ghEnvironments>>]
                   ELSE NoTeardown
    /\ stage' = "check"
    /\ pruneMax' = maxDeployments
    /\ extraDeployments' = <<>>
    /\ deploymentId' = 0
    /\ pageData' = NULL
    /\ patchBody' = NULL
    \* the workspace of a deploy that gets to its build may hold an earlier build
    /\ buildDir' \in IF /\ c = "deploy"
                       /\ checkEnvironment(env)
                       /\ checkSecrets(secrets, env)
                       /\ checkSecrets(variables, env)
                    THEN BOOLEAN ELSE {FALSE}
    /\ IF ~checkEnvironment(env)
       THEN Exit /\ calls' = <<>>
       ELSE \* checkRepository runs up to its first await: the fetch is called
            /\ calls' = <<[fn |-> "checkRepository", stage |-> "check", method |-> "GET",
                           what |-> "repository", id |-> 0, status |-> PENDING,
                           listed |-> <<>>, max |-> maxDeployments]>>
            /\ IF c = "deploy" /\ ~(checkSecrets(secrets, env) /\ checkSecrets(variables, env))
               THEN Exit
               ELSE pc' = "check_repo" /\ result' = "running"
    /\ UNCHANGED <<environment, head, maxDeployments, GITHUB_REF, remote, initCalls,
                   version, pending>>

\* the callback without run('build')
StartCommandAtDeploy ==
    /\ stage' = IF cmd = "deploy" THEN "deploy" ELSE "routine"
    /\ pc' = IF cmd = "deploy" THEN "projects" ELSE "gh_list"
    /\ UNCHANGED result

\* the end of the checks: the callback of Promise.all(checks).then
StartCommand ==
    /\ stage' = IF cmd = "deploy" THEN "deploy" ELSE "routine"
    /\ pc' = IF cmd = "deploy" THEN "build" ELSE "gh_list"
    /\ UNCHANGED result

\* checkRepository: the answer to GET repos/<repository>
CheckRepositoryRepo ==
    /\ pc = "check_repo"
    /\ \E status \in {200, 404, 500} :
          /\ calls' = [calls EXCEPT ![Len(calls)].status = status]
          /\ CASE apiReturn(status, "GET") = "throw" -> Throw
               [] apiReturn(status, "GET") = "null" -> Exit
               [] OTHER -> pc' = "check_head" /\ UNCHANGED result
    /\ UNCHANGED <<inputs, remote, locals, cmd, stage, runs, initCalls>>

\* checkRepository: GET repos/<repository>/branches/<head>
CheckRepositoryHead ==
    /\ pc = "check_head"
    /\ \E status \in {200, 404, 500} :
          /\ calls' = Append(calls, Call("checkRepository", "GET", "head", 0, status, <<>>))
          /\ CASE apiReturn(status, "GET") = "throw" -> Throw /\ UNCHANGED stage
               [] apiReturn(status, "GET") = "null" -> Exit /\ UNCHANGED stage
               [] cmd = "deploy" -> pc' = "check_branch" /\ UNCHANGED <<result, stage>>
               [] OTHER -> StartCommand
    /\ UNCHANGED <<inputs, remote, locals, cmd, runs, initCalls>>

\* checkRepository of deploy: GET repos/<repository>/branches/<environment>
CheckRepositoryBranch ==
    /\ pc = "check_branch"
    /\ \E status \in {200, 404, 500} :
          /\ calls' = Append(calls, Call("checkRepository", "GET", "branch", 0, status, <<>>))
          /\ CASE apiReturn(status, "GET") = "throw" -> Throw /\ UNCHANGED stage
               [] apiReturn(status, "GET") = "null" -> Exit /\ UNCHANGED stage
               [] OTHER -> StartCommand
    /\ UNCHANGED <<inputs, remote, locals, cmd, runs, initCalls>>

\* run('build'): the directory is not looked at; a build that succeeds
\* leaves it in place
Build ==
    /\ pc = "build"
    /\ \E status \in {0, 1} :
          /\ calls' = Append(calls, Call("main", "EXEC", "build", 0, status, <<>>))
          /\ IF status # 0 THEN Throw /\ UNCHANGED buildDir
             ELSE pc' = "projects" /\ buildDir' = TRUE /\ UNCHANGED result
    /\ UNCHANGED <<awaited, remote, locals, cmd, stage, runs, initCalls>>

----------------------------------------------------------------------------
(* deploy *)

\* the values of the process environment
procEnv == ("MODE" :> "dev") @@ ("API_KEY" :> "s3cr3t")

envMap(names) == [k \in 1..Len(names) |-> [name |-> names[k], value |-> procEnv[names[k]]]]

\* { ...a, ...b }
Spread(a, b) == [k \in (DOMAIN a) \cup (DOMAIN b) |-> IF k \in DOMAIN b THEN b[k] ELSE a[k]]

LastNamed(vs, n) == CHOOSE k \in 1..Len(vs) :
                        /\ vs[k].name = n
                        /\ \A j \in 1..Len(vs) : vs[j].name = n => j <= k

varMap(vs) == [n \in {vs[k].name : k \in 1..Len(vs)} |-> [value |-> vs[LastNamed(vs, n)].value]]

secretMap(vs) ==
    [n \in {vs[k].name : k \in 1..Len(vs)} |->
        [value |-> vs[LastNamed(vs, n)].value, type |-> "secret_text"]]

\* every deployment configured as a preview
configSectionPreview(env, hd) == "preview"

configSection(env, hd) == IF env = hd THEN "production" ELSE "preview"

baseData(data) == [deployment_configs |-> data.deployment_configs]

patchData(env, hd, vs, ss) ==
    [deployment_configs |->
        configSection(env, hd) :>
            [compatibility_date |-> "2022-01-01",
             compatibility_flags |-> <<"url_standard">>,
             env_vars |-> Spread(varMap(vs), secretMap(ss))]]

\* the body of the PATCH request of addPageVariables
PatchRequest(data, env, hd, vs, ss) == Spread(baseData(data), patchData(env, hd, vs, ss))

\* the name of the pages project, and the listings the platform can answer
name == "frontpage"
ProjectListings == {<<>>, <<"other", name>>}

\* Array.prototype.filter returns an array, whatever it holds
filter(list, n) == [type |-> "array", items |-> SelectSeq(list, LAMBDA x : x = n)]

\* x === null
isNull(x) == x.type = "null"

projectsMatch(allProjects) == filter(allProjects, name)

\* the projects listing, then the test that guards `wrangler pages project create`
DeployListProjects ==
    /\ pc = "projects"
    /\ \E status \in {200, 404, 500} :
       \E listing \in ProjectListings :
          LET ret == apiReturn(status, "GET")
              allProjects == IF ret = "null" THEN <<>> ELSE listing
              listProjects == Call("deploy", "GET", "projects", 0, status, allProjects)
              createProject == Call("deploy", "EXEC", "create", 0, 0, <<>>)
          IN /\ ret = "null" => listing = <<>>
             /\ IF ret = "throw"
                THEN /\ calls' = Append(calls, [listProjects EXCEPT !.listed = <<>>])
                     /\ Throw
                ELSE /\ calls' = IF isNull(projectsMatch(allProjects))
                                  THEN calls \o <<listProjects, createProject>>
                                  ELSE Append(calls, listProjects)
                     /\ pc' = "publish"
                     /\ UNCHANGED result
    /\ UNCHANGED <<inputs, remote, locals, cmd, stage, runs, initCalls>>

\* exec(`wrangler pages publish ...`): a new page deployment for the branch
DeployPublish ==
    /\ pc = "publish"
    /\ \E status \in {0, 1} :
          /\ calls' = Append(calls, Call("deploy", "EXEC", "publish", 0, status, <<>>))
          /\ IF status # 0
             THEN Throw /\ UNCHANGED pagesDeployments
             ELSE /\ pagesDeployments' =
                        <<PageRecord(100 + runs, environment)>> \o pagesDeployments
                  /\ pc' = "vars_get"
                  /\ UNCHANGED result
    /\ UNCHANGED <<inputs, ghDeployments, ghEnvironments, pageConfigs, locals, cmd,
                   stage, runs, initCalls>>

AddPageVariablesGet ==
    /\ pc = "vars_get"
    /\ \E status \in Responses("GET", "project", TRUE) :
          /\ calls' = Append(calls, Call("addPageVariables", "GET", "project", 0, status, <<>>))
          /\ CASE apiReturn(status, "GET") = "throw" -> Throw /\ UNCHANGED pageData
               \* pageData is null: reading pageData.deployment_configs throws
               [] apiReturn(status, "GET") = "null" -> Throw /\ UNCHANGED pageData
               [] OTHER -> /\ pageData' = [deployment_configs |-> pageConfigs]
                           /\ pc' = "vars_patch"
                           /\ UNCHANGED result
    /\ UNCHANGED <<inputs, remote, pruneMax, extraDeployments, deploymentId, patchBody,
                   cmd, stage, runs, initCalls>>

AddPageVariablesPatch ==
    /\ pc = "vars_patch"
    /\ patchBody' = PatchRequest(pageData, environment, head, envMap(variables), envMap(secrets))
    /\ \E status \in Responses("PATCH", "project", TRUE) :
          /\ calls' = Append(calls, Call("addPageVariables", "PATCH", "project", 0, status, <<>>))
          /\ IF apiReturn(status, "PATCH") = "throw"
             THEN Throw /\ UNCHANGED pageConfigs
             ELSE \* the platform stores the sections the body names
                  /\ pageConfigs' = Spread(pageConfigs, patchBody'.deployment_configs)
                  /\ pc' = "env_put"
                  /\ UNCHANGED result
    /\ UNCHANGED <<inputs, ghDeployments, ghEnvironments, pagesDeployments, pruneMax,
                   extraDeployments, deploymentId, pageData, cmd, stage, runs, initCalls>>

----------------------------------------------------------------------------
(* GitHub deployment registry *)

\* a test of the answer that lets the empty result pass
falsyNever(ret) == FALSE

\* !deployment, !deploymentStatus: the empty result of githubAPI is falsy
falsy(ret) == ret = "null"

\* GET repos/<repository>/deployments?ref=<q>&environment=<q>
\* a list request without its query
QueryEverything(q) == ghDeployments

\* GET repos/<repository>/deployments?ref=<q>&environment=<q>
QueryDeployments(q) == SelectSeq(ghDeployments, LAMBDA r : r.ref = q /\ r.environment = q)

\* listGithubDeployments, given what githubAPI returned
listGithubDeployments(ret, q) == Sort(IF ret = "null" THEN <<>> ELSE QueryDeployments(q))

\* the records of the registry that belong to an environment
EnvRecords(e) == SelectSeq(ghDeployments, LAMBDA r : r.environment = e)

deployRef == IF GITHUB_REF # NULL THEN GITHUB_REF ELSE environment

InitCall(i, posted) == [existing |-> Ids(EnvRecords(environment)), id |-> i, posted |-> posted]

CreateGithubDeploymentPut ==
    /\ pc = "env_put"
    /\ \E status \in Responses("PUT", "environment", TRUE) :
          /\ calls' = Append(calls,
                 Call("createGithubDeployment", "PUT", "environment", 0, status, <<>>))
          /\ IF apiReturn(status, "PUT") = "throw"
             THEN Throw /\ UNCHANGED ghEnvironments
             ELSE /\ ghEnvironments' = ghEnvironments \cup {environment}
                  /\ pc' = "init_list"
                  /\ UNCHANGED result
    /\ UNCHANGED <<inputs, ghDeployments, pagesDeployments, pageConfigs, locals, cmd,
                   stage, runs, initCalls>>

InitGithubDeploymentList ==
    /\ pc = "init_list"
    /\ \E status \in Responses("GET", "deployments", TRUE) :
          LET ret == apiReturn(status, "GET")
              deployments == listGithubDeployments(ret, deployRef)
          IN /\ calls' = Append(calls,
                    Call("initGithubDeployment", "GET", "deployments", 0, status,
                         IF ret = "throw" THEN <<>> ELSE deployments))
             /\ IF ret = "throw"
                THEN /\ Throw
                     /\ initCalls' = Append(initCalls, InitCall(0, FALSE))
                     /\ UNCHANGED deploymentId
                ELSE IF Len(deployments) > 0
                THEN /\ deploymentId' = deployments[1].id
                     /\ initCalls' = Append(initCalls, InitCall(deployments[1].id, FALSE))
                     /\ pc' = "status_post"
                     /\ UNCHANGED result
                ELSE /\ pc' = "init_post"
                     /\ UNCHANGED <<result, deploymentId, initCalls>>
    /\ UNCHANGED <<inputs, remote, pruneMax, extraDeployments, pageData, patchBody, cmd,
                   stage, runs>>

InitGithubDeploymentPost ==
    /\ pc = "init_post"
    /\ \E status \in Responses("POST", "deployments", TRUE) :
          LET ret == apiReturn(status, "POST")
              new == GhRecord(100 + runs, environment, deployRef)
          IN /\ calls' = Append(calls,
                    Call("initGithubDeployment", "POST", "deployments", 0, status, <<>>))
             /\ IF ret # "throw" /\ ~falsy(ret)
                THEN /\ ghDeployments' = <<new>> \o ghDeployments
                     /\ deploymentId' = new.id
                     /\ initCalls' = Append(initCalls, InitCall(new.id, TRUE))
                     /\ pc' = "status_post"
                     /\ UNCHANGED result
                ELSE \* a failed request, or throw new Error('Unable to create deployment')
                     /\ Throw
                     /\ initCalls' = Append(initCalls, InitCall(0, TRUE))
                     /\ UNCHANGED <<ghDeployments, deploymentId>>
    /\ UNCHANGED <<inputs, ghEnvironments, pagesDeployments, pageConfigs, pruneMax,
                   extraDeployments, pageData, patchBody, cmd, stage, runs>>

CreateGithubDeploymentStatus ==
    /\ pc = "status_post"
    /\ \E status \in Responses("POST", "success", TRUE) :
          /\ calls' = Append(calls,
                 Call("createGithubDeployment", "POST", "success", deploymentId, status, <<>>))
          /\ IF apiReturn(status, "POST") # "throw" /\ ~falsy(apiReturn(status, "POST"))
             THEN /\ ghDeployments' = SetStatus(ghDeployments, deploymentId, "success")
                  /\ pc' = "gh_list"
                  /\ UNCHANGED result
             ELSE Throw /\ UNCHANGED ghDeployments
    /\ UNCHANGED <<inputs, ghEnvironments, pagesDeployments, pageConfigs, locals, cmd,
                   stage, runs, initCalls>>

\* extraDeployments cut one record too far
githubExtraOneMore(allDeployments, max) ==
    IF Len(allDeployments) > max
    THEN Slice(allDeployments, 0, Len(allDeployments) - max + 1)
    ELSE <<>>

\* extraDeployments of cleanGithubDeployments
githubExtra(allDeployments, max) ==
    IF Len(allDeployments) > max
    THEN Slice(allDeployments, 0, Len(allDeployments) - max)
    ELSE <<>>

CleanGithubDeploymentsList ==
    /\ pc = "gh_list"
    /\ \E status \in Responses("GET", "deployments", TRUE) :
          LET ret == apiReturn(status, "GET")
              allDeployments == listGithubDeployments(ret, environment)
              extra == githubExtra(allDeployments, pruneMax)
          IN /\ calls' = Append(calls,
                    Call("cleanGithubDeployments", "GET", "deployments", 0, status,
                         IF ret = "throw" THEN <<>> ELSE allDeployments))
             /\ IF ret = "throw"
                THEN Throw /\ UNCHANGED extraDeployments
                ELSE /\ extraDeployments' = extra
                     /\ pc' = IF extra = <<>> THEN "pages_list" ELSE "gh_inactive"
                     /\ UNCHANGED result
    /\ UNCHANGED <<inputs, remote, pruneMax, deploymentId, pageData, patchBody, cmd,
                   stage, runs, initCalls>>

CleanGithubDeploymentsInactive ==
    /\ pc = "gh_inactive"
    /\ LET deployment == Head(extraDeployments)
       IN \E status \in Responses("POST", "inactive", TRUE) :
             /\ calls' = Append(calls,
                    Call("cleanGithubDeployments", "POST", "inactive", deployment.id,
                         status, <<>>))
             /\ IF apiReturn(status, "POST") = "throw"
                THEN Throw /\ UNCHANGED ghDeployments
                ELSE /\ ghDeployments' = SetStatus(ghDeployments, deployment.id, "inactive")
                     /\ pc' = "gh_delete"
                     /\ UNCHANGED result
    /\ UNCHANGED <<inputs, ghEnvironments, pagesDeployments, pageConfigs, locals, cmd,
                   stage, runs, initCalls>>

CleanGithubDeploymentsDelete ==
    /\ pc = "gh_delete"
    /\ LET deployment == Head(extraDeployments)
       IN \E status \in Responses("DELETE", "deployment",
                                  deployment.id \in IdSet(ghDeployments)) :
             /\ calls' = Append(calls,
                    Call("cleanGithubDeployments", "DELETE", "deployment", deployment.id,
                         status, <<>>))
             /\ IF apiReturn(status, "DELETE") = "throw"
                THEN Throw /\ UNCHANGED <<ghDeployments, extraDeployments>>
                ELSE /\ ghDeployments' = Without(ghDeployments, deployment.id)
                     /\ extraDeployments' = Tail(extraDeployments)
                     /\ pc' = IF Tail(extraDeployments) = <<>> THEN "pages_list"
                              ELSE "gh_inactive"
                     /\ UNCHANGED result
    /\ UNCHANGED <<inputs, ghEnvironments, pagesDeployments, pageConfigs, pruneMax,
                   deploymentId, pageData, patchBody, cmd, stage, runs, initCalls>>

----------------------------------------------------------------------------
(* Cloudflare Pages registry *)

\* how much of deployment_trigger.metadata.branch a page deployment has:
\* all of it, no branch in the metadata, no metadata in the trigger, no trigger
Triggers == {"branch", "no_branch", "no_metadata", "none"}

\* the branch the callback of the filter computes: isMetadata and isBranch are
\* evaluated whatever isTrigger is, and `in` throws a TypeError when its right
\* operand is undefined
branchOf(x) ==
    CASE x.trigger = "none" -> "throw"
      [] x.trigger = "no_metadata" -> "throw"
      [] x.trigger = "no_branch" -> NULL
      [] OTHER -> x.branch

\* listPagesDeployments, given what cloudflareAPI returned (body is the
\* result array of the response): the array it returns, or the error it throws.
\* Without an environment it sorts rawDeployments, the object around the
\* result array, which has no sort method.
listPagesDeployments(ret, body, e) ==
    LET rawDeployments == IF ret = "null" THEN <<>> ELSE body
        environmentDeployments == SelectSeq(rawDeployments, LAMBDA x : branchOf(x) = e)
    IN IF \E k \in 1..Len(rawDeployments) : branchOf(rawDeployments[k]) = "throw"
       THEN [type |-> "throw", items |-> <<>>]
       ELSE IF e # NULL
            THEN [type |-> "array", items |-> Sort(environmentDeployments)]
            ELSE [type |-> "throw", items |-> <<>>]

\* extraDeployments cut after the first record
pagesExtraKeepsFirst(deployments, max) ==
    IF Len(deployments) > 0
    THEN Slice(deployments, 1, Len(deployments) - max)
    ELSE <<>>

\* extraDeployments of cleanPagesDeployments
pagesExtra(deployments, max) ==
    IF Len(deployments) > 0
    THEN Slice(deployments, 0, Len(deployments) - max)
    ELSE <<>>

\* the DELETE of one page deployment outside any try/catch
pagesDeleteUncaught == FALSE

\* the try/catch around the DELETE of one page deployment
pagesDeleteCaught == TRUE

\* the threshold of the second prune of clean
wipeMax == 0

\* the teardown without the test of the head branch
cleanDestroysAlways(env, hd) == TRUE

\* clean: the teardown of a preview environment
cleanDestroys(env, hd) == env # hd

\* what follows the return of cleanPagesDeployments, in deploy and in clean
AfterCleanPages ==
    CASE stage = "routine" /\ cleanDestroys(environment, head) ->
            /\ stage' = "wipe"
            /\ pruneMax' = wipeMax
            /\ pc' = "gh_list"
            /\ UNCHANGED result
      [] stage = "wipe" ->
            /\ pc' = "env_delete"
            /\ UNCHANGED <<stage, pruneMax, result>>
      [] OTHER ->
            /\ Return
            /\ UNCHANGED <<stage, pruneMax>>

CleanPagesDeploymentsList ==
    /\ pc = "pages_list"
    /\ \E status \in Responses("GET", "pages.deployments", TRUE) :
          LET ret == apiReturn(status, "GET")
              sorted == listPagesDeployments(ret, pagesDeployments, environment)
              deployments == sorted.items
              extra == pagesExtra(deployments, pruneMax)
          IN /\ calls' = Append(calls,
                    Call("cleanPagesDeployments", "GET", "pages.deployments", 0, status,
                         IF ret = "throw" THEN <<>> ELSE deployments))
             /\ IF ret = "throw" \/ sorted.type = "throw"
                THEN Throw /\ UNCHANGED <<extraDeployments, stage, pruneMax>>
                ELSE /\ extraDeployments' = extra
                     /\ IF extra = <<>> THEN AfterCleanPages
                        ELSE pc' = "pages_delete" /\ UNCHANGED <<stage, pruneMax, result>>
    /\ UNCHANGED <<inputs, remote, deploymentId, pageData, patchBody, cmd, runs, initCalls>>

CleanPagesDeploymentsDelete ==
    /\ pc = "pages_delete"
    /\ LET deployment == Head(extraDeployments)
       IN \E status \in Responses("DELETE", "pages.deployment",
                                  deployment.id \in IdSet(pagesDeployments)) :
             LET ret == apiReturn(status, "DELETE")
             IN /\ calls' = Append(calls,
                       Call("cleanPagesDeployments", "DELETE", "pages.deployment",
                            deployment.id, status, <<>>))
                /\ IF ret = "throw" /\ ~pagesDeleteCaught
                   THEN Throw /\ UNCHANGED <<pagesDeployments, extraDeployments, stage, pruneMax>>
                   ELSE /\ pagesDeployments' = IF ret = "throw" THEN pagesDeployments
                                               ELSE Without(pagesDeployments, deployment.id)
                        /\ extraDeployments' = Tail(extraDeployments)
                        /\ IF Tail(extraDeployments) = <<>> THEN AfterCleanPages
                           ELSE pc' = "pages_delete" /\ UNCHANGED <<stage, pruneMax, result>>
    /\ UNCHANGED <<inputs, ghDeployments, ghEnvironments, pageConfigs, deploymentId,
                   pageData, patchBody, cmd, runs, initCalls>>

\* clean: DELETE repos/<repository>/environments/<environment>
CleanDeleteEnvironment ==
    /\ pc = "env_delete"
    /\ \E status \in Responses("DELETE", "environment", environment \in ghEnvironments) :
          /\ calls' = Append(calls, Call("clean", "DELETE", "environment", 0, status, <<>>))
          /\ IF apiReturn(status, "DELETE") = "throw"
             THEN Throw /\ UNCHANGED ghEnvironments
             ELSE /\ ghEnvironments' = ghEnvironments \ {environment}
                  /\ Return
    /\ UNCHANGED <<inputs, ghDeployments, pagesDeployments, pageConfigs, locals, cmd,
                   stage, runs, initCalls>>

----------------------------------------------------------------------------

Next ==
    \/ \E c \in {"deploy", "clean"} : \E env \in ProcessEnvs(c) : Main(c, env)
    \/ CheckRepositoryRepo
    \/ CheckRepositoryHead
    \/ CheckRepositoryBranch
    \/ Build
    \/ DeployListProjects
    \/ DeployPublish
    \/ AddPageVariablesGet
    \/ AddPageVariablesPatch
    \/ CreateGithubDeploymentPut
    \/ InitGithubDeploymentList
    \/ InitGithubDeploymentPost
    \/ CreateGithubDeploymentStatus
    \/ CleanGithubDeploymentsList
    \/ CleanGithubDeploymentsInactive
    \/ CleanGithubDeploymentsDelete
    \/ CleanPagesDeploymentsList
    \/ CleanPagesDeploymentsDelete
    \/ CleanDeleteEnvironment

Spec == Init /\ [][Next]_vars

----------------------------------------------------------------------------
(* The pure functions, applied to inputs of every shape *)

MaxList == 3

StatusCodes == {200, 201, 204, 304, 400, 404, 500}
Methods == {"GET", "POST", "PUT", "DELETE", "PATCH"}

\* the orders a list of n records can be returned in
Orders(n) == {f \in [1..n -> 1..n] : \A i, j \in 1..n : i # j => f[i] # f[j]}

\* any number of records of the environment, in any order
PureInit ==
    /\ environment \in Envs
    /\ head = "master"
    /\ maxDeployments \in 0..MaxM
    /\ GITHUB_REF = NULL
    /\ processEnv = {}
    /\ \E n \in 0..MaxList : \E f \in Orders(n) :
          ghDeployments = [k \in 1..n |-> GhRecord(f[k], environment, environment)]
    /\ ghEnvironments = Envs
    /\ \E n \in 0..MaxList : \E f \in Orders(n) :
          pagesDeployments = [k \in 1..n |-> PageRecord(f[k], environment)]
    /\ pageConfigs = InitialConfigs
    /\ cmd = "none"
    /\ pc = "idle"
    /\ stage = "none"
    /\ result = "none"
    /\ runs = 0
    /\ pruneMax = maxDeployments
    /\ extraDeployments = <<>>
    /\ deploymentId = 0
    /\ pageData = NULL
    /\ patchBody = NULL
    /\ initCalls = <<>>
    /\ buildDir = FALSE
    /\ version = LATEST
    /\ pending = {}
    /\ previous = NoTeardown
    /\ calls = <<>>

\* listGithubDeployments and listPagesDeployments on an answered request
ApplyList ==
    /\ pc = "idle"
    /\ pc' = "listed"
    /\ calls' = <<Call("listGithubDeployments", "GET", "deployments", 0, 200,
                        listGithubDeployments(apiReturn(200, "GET"), environment)),
                   Call("listPagesDeployments", "GET", "pages.deployments", 0, 200,
                        listPagesDeployments(apiReturn(200, "GET"), pagesDeployments,
                                             environment).items)>>
    /\ UNCHANGED <<inputs, remote, locals, cmd, stage, result, runs, initCalls>>

\* the selection of both prune functions on one list
ApplySelect ==
    /\ pc = "idle"
    /\ pc' = "selected"
    /\ calls' = <<Call("cleanGithubDeployments", "GET", "deployments", 0, 200,
                        githubExtra(ghDeployments, pruneMax)),
                   Call("cleanPagesDeployments", "GET", "pages.deployments", 0, 200,
                        pagesExtra(ghDeployments, pruneMax))>>
    /\ UNCHANGED <<inputs, remote, locals, cmd, stage, result, runs, initCalls>>

\* apiReturn on a response
ApplyApiReturn ==
    /\ pc = "idle"
    /\ pc' = "classified"
    /\ \E status \in StatusCodes : \E method \in Methods :
          calls' = <<Call("genericAPI", method, apiReturn(status, method), 0, status, <<>>)>>
    /\ UNCHANGED <<inputs, remote, locals, cmd, stage, result, runs, initCalls>>

\* a page deployment of another branch, or one that lacks a part of its trigger
Alter(x, how) == IF how = "other" THEN [x EXCEPT !.branch = OtherEnv(x.branch)]
                 ELSE [x EXCEPT !.trigger = how]

\* listPagesDeployments with or without an environment, on a result array in
\* which up to one record differs from the others
ApplyListPages ==
    /\ pc = "idle"
    /\ pc' = "pages_listed"
    /\ \E e \in {environment, NULL} :
       \E m \in 0..Len(pagesDeployments) :
       \E how \in Triggers \cup {"other"} :
          LET body == IF m = 0 THEN pagesDeployments
                      ELSE [pagesDeployments EXCEPT ![m] = Alter(@, how)]
              sorted == listPagesDeployments("json", body, e)
          IN calls' = <<[fn |-> "listPagesDeployments", environment |-> e,
                         result |-> body, type |-> sorted.type,
                         listed |-> sorted.items]>>
    /\ UNCHANGED <<inputs, remote, locals, cmd, stage, result, runs, initCalls>>

\* the lists of names --variable and --secret can collect
MaxNames == 2
NameLists == UNION {[1..n -> DOMAIN procEnv] : n \in 0..MaxNames}

\* the body addPageVariables sends, for any variables and secrets
ApplyPatchData ==
    /\ pc = "idle"
    /\ pc' = "patched"
    /\ \E vs \in NameLists : \E ss \in NameLists :
          calls' = <<[fn |-> "addPageVariables", variables |-> vs, secrets |-> ss,
                      body |-> PatchRequest([deployment_configs |-> pageConfigs],
                                            environment, head, envMap(vs), envMap(ss))]>>
    /\ UNCHANGED <<inputs, remote, locals, cmd, stage, result, runs, initCalls>>

PureNext ==
    ApplyList \/ ApplySelect \/ ApplyApiReturn \/ ApplyListPages \/ ApplyPatchData

PureSpec == PureInit /\ [][PureNext]_vars

----------------------------------------------------------------------------
(* Properties *)

Idx == 1..Len(calls)

Succeeded(c) == IF c.method = "EXEC" THEN c.status = 0 ELSE ok(c.status)

AllSucceeded == \A k \in Idx : Succeeded(calls[k])

Finished == pc = "idle" /\ runs > 0

PageRecords(e) == SelectSeq(pagesDeployments, LAMBDA x : x.branch = e)

\* a list request of one of the two prune functions that was answered
IsPruneList(c, fn) == c.fn = fn /\ c.method = "GET" /\ apiReturn(c.status, "GET") # "throw"

\* the ids a prune of stage st sent a request of kind what for
Requested(fn, st, what) ==
    {calls[k].id : k \in {j \in Idx : /\ calls[j].fn = fn
                                      /\ calls[j].stage = st
                                      /\ calls[j].what = what}}

RecencyDescending(list) ==
    \A i, j \in 1..Len(list) : i < j => list[i].updated_at > list[j].updated_at

\* the records at positions [m, n) of a list of n records
Oldest(list, m) == {list[k].id : k \in (m + 1)..Len(list)}

\* C1: when cleanGithubDeployments has returned and every call succeeded, the
\* inactive POSTs and the DELETEs went to exactly the records at positions
\* [M, N) of the recency-descending list, the max(0, N - M) oldest ones
GithubPrunesOldest ==
    pc = "pages_list" =>
        \A k \in Idx :
            (/\ IsPruneList(calls[k], "cleanGithubDeployments")
             /\ calls[k].stage = stage
             /\ RecencyDescending(calls[k].listed)
             /\ AllSucceeded)
            => /\ Requested("cleanGithubDeployments", stage, "inactive")
                    = Oldest(calls[k].listed, calls[k].max)
               /\ Requested("cleanGithubDeployments", stage, "deployment")
                    = Oldest(calls[k].listed, calls[k].max)

\* C2: a prune that lists at most maxDeployments records sends no inactive
\* POST and no DELETE, in both registries
PruneWithinLimitIsNoOp ==
    \A k \in Idx :
        (/\ \/ IsPruneList(calls[k], "cleanGithubDeployments")
            \/ IsPruneList(calls[k], "cleanPagesDeployments")
         /\ Len(calls[k].listed) <= calls[k].max)
        => \A j \in Idx :
              (calls[j].fn = calls[k].fn /\ calls[j].stage = calls[k].stage)
              => calls[j].method = "GET"

PatchIssued == \E k \in Idx : calls[k].method = "PATCH"

siblingSection == IF configSection(environment, head) = "production" THEN "preview"
                  ELSE "production"

\* C3: the body of the PATCH holds the sibling section as the GET returned it
PatchKeepsSibling ==
    PatchIssued =>
        /\ siblingSection \in DOMAIN patchBody.deployment_configs
        /\ patchBody.deployment_configs[siblingSection]
              = pageData.deployment_configs[siblingSection]

\* C4: a call of initGithubDeployment made while the environment has a record
\* sends no creation POST, and two such calls on the same records return the
\* same id, whatever GITHUB_SHA is
InitDeduplicates ==
    /\ \A i \in 1..Len(initCalls) :
          initCalls[i].existing # <<>> => ~initCalls[i].posted
    /\ \A i, j \in 1..Len(initCalls) :
          (/\ initCalls[i].existing # <<>>
           /\ initCalls[i].existing = initCalls[j].existing
           /\ initCalls[i].id # 0
           /\ initCalls[j].id # 0)
          => initCalls[i].id = initCalls[j].id

\* a step of a clean of the production environment
ProductionCleanStep == cmd = "clean" /\ pc # "idle" /\ environment = head

\* the step leaves a record in each registry that had one, and the environment
KeepsProduction ==
    /\ EnvRecords(environment) # <<>> => EnvRecords(environment)' # <<>>
    /\ PageRecords(environment) # <<>> => PageRecords(environment)' # <<>>
    /\ environment \in ghEnvironments => environment \in ghEnvironments'

\* C5 as stated: a clean with environment == head never empties a registry
\* and never deletes the environment, for every maxDeployments >= 0
ProductionNeverWiped == [][ProductionCleanStep => KeepsProduction]_vars

\* C5 as amended: the same for every maxDeployments >= 1
ProductionNeverWipedAboveZero ==
    [][(ProductionCleanStep /\ maxDeployments >= 1) => KeepsProduction]_vars

\* a clean of production with maxDeployments >= 1 has deleted records of both
\* registries and has returned
ProductionPruned ==
    /\ cmd = "clean" /\ environment = head /\ maxDeployments >= 1
    /\ pc = "idle" /\ result = "done"
    /\ Requested("cleanGithubDeployments", "routine", "deployment") # {}
    /\ Requested("cleanPagesDeployments", "routine", "pages.deployment") # {}

\* the place of a call in the sequence of clean
Rank(c) ==
    CASE c.fn = "checkRepository" -> 0
      [] c.fn = "cleanGithubDeployments" /\ c.stage = "routine" -> 1
      [] c.fn = "cleanPagesDeployments" /\ c.stage = "routine" -> 2
      [] c.fn = "cleanGithubDeployments" /\ c.stage = "wipe" -> 3
      [] c.fn = "cleanPagesDeployments" /\ c.stage = "wipe" -> 4
      [] OTHER -> 5

\* the list request that opens the prune of place r, with its threshold
Opens(r, max) ==
    \E k \in Idx : /\ Rank(calls[k]) = r
                   /\ calls[k].method = "GET"
                   /\ calls[k].max = max
                   /\ \A j \in 1..(k - 1) : Rank(calls[j]) < r

TeardownOrdered ==
    /\ \A i, j \in Idx : i < j => Rank(calls[i]) <= Rank(calls[j])
    /\ Opens(1, maxDeployments) /\ Opens(2, maxDeployments)
    /\ Opens(3, wipeMax) /\ Opens(4, wipeMax)
    /\ calls[Len(calls)].fn = "clean"
    /\ calls[Len(calls)].method = "DELETE"
    /\ calls[Len(calls)].what = "environment"

PreviewCleanDone ==
    /\ cmd = "clean" /\ environment # head
    /\ pc = "idle" /\ result = "done"
    /\ AllSucceeded

\* C6: a clean of a preview environment in which every call succeeded has
\* pruned both registries at maxDeployments, then both at 0, then deleted the
\* environment; no record of the environment is left in either registry
TeardownComplete ==
    PreviewCleanDone =>
        /\ TeardownOrdered
        /\ EnvRecords(environment) = <<>>
        /\ PageRecords(environment) = <<>>
        /\ environment \notin ghEnvironments

\* C7: a clean with environment == head prunes each registry once, at the
\* caller's maxDeployments, and never sends the DELETE of the environment
ProductionCleanOnlyPrunes ==
    (cmd = "clean" /\ environment = head) =>
        /\ \A k \in Idx : /\ calls[k].stage \in {"check", "routine"}
                          /\ calls[k].max = maxDeployments
                          /\ calls[k].fn \in {"checkRepository", "cleanGithubDeployments",
                                               "cleanPagesDeployments"}
                          /\ ~(calls[k].method = "DELETE" /\ calls[k].what = "environment")
        /\ \A i, j \in Idx : (calls[i].method = "GET" /\ calls[j].method = "GET"
                              /\ calls[i].stage = "routine"
                              /\ calls[i].fn = calls[j].fn) => i = j
        /\ (pc = "idle" /\ result = "done") =>
              /\ \E k \in Idx : IsPruneList(calls[k], "cleanGithubDeployments")
              /\ \E k \in Idx : IsPruneList(calls[k], "cleanPagesDeployments")

\* a clean of production has returned after deleting records
ProductionCleanDone ==
    /\ cmd = "clean" /\ environment = head
    /\ pc = "idle" /\ result = "done"
    /\ \E k \in Idx : calls[k].method = "DELETE"

IsGithubDelete(c) ==
    c.fn = "cleanGithubDeployments" /\ c.method = "DELETE" /\ c.what = "deployment"

IsPagesDelete(c) ==
    c.fn = "cleanPagesDeployments" /\ c.method = "DELETE" /\ c.what = "pages.deployment"

\* C8: every DELETE of a deployment record comes after an inactive status POST
\* for the same record, in the same prune, that was answered with success
InactiveBeforeDelete ==
    \A j \in Idx :
        IsGithubDelete(calls[j]) =>
            \E i \in 1..(j - 1) :
                /\ calls[i].fn = "cleanGithubDeployments"
                /\ calls[i].stage = calls[j].stage
                /\ calls[i].method = "POST"
                /\ calls[i].what = "inactive"
                /\ calls[i].id = calls[j].id
                /\ ok(calls[i].status)

\* two records were deactivated and deleted by one prune
TwoRecordsPruned ==
    \E i, j \in Idx : /\ i < j
                      /\ IsGithubDelete(calls[i])
                      /\ IsGithubDelete(calls[j])
                      /\ calls[i].stage = calls[j].stage

\* C9: when the invocation is over, every record selected by a prune of the
\* GitHub registry has been sent its inactive POST, whichever requests failed,
\* and no failed request of the prune has ended the invocation
GithubPruneBestEffort ==
    Finished =>
        /\ \A k \in Idx :
              IsPruneList(calls[k], "cleanGithubDeployments") =>
                  IdSet(githubExtra(calls[k].listed, calls[k].max))
                      \subseteq Requested("cleanGithubDeployments", calls[k].stage, "inactive")
        /\ \A k \in Idx :
              (calls[k].fn = "cleanGithubDeployments" /\ calls[k].method # "GET"
               /\ ~Succeeded(calls[k])) => result # "failed"

\* C10: a failed DELETE of a page deployment is not propagated: the loop goes
\* on to every other selected record and the invocation continues
PagesPruneSwallowsFailures ==
    /\ (pc = "idle" /\ result = "failed") => ~IsPagesDelete(calls[Len(calls)])
    /\ \A k \in Idx :
          (IsPruneList(calls[k], "cleanPagesDeployments")
           /\ \/ Finished
              \/ \E j \in Idx : j > k /\ ~IsPagesDelete(calls[j]))
          => IdSet(pagesExtra(calls[k].listed, calls[k].max))
                \subseteq Requested("cleanPagesDeployments", calls[k].stage, "pages.deployment")

\* the DELETE of a page deployment failed, the next selected one was tried and
\* the invocation returned
PagesFailureSurvived ==
    /\ pc = "idle" /\ result = "done"
    /\ \E i, j \in Idx : /\ i < j
                         /\ IsPagesDelete(calls[i])
                         /\ ~Succeeded(calls[i])
                         /\ IsPagesDelete(calls[j])
                         /\ calls[i].stage = calls[j].stage

----------------------------------------------------------------------------
(* Preconditions *)

IsCheck(c) == c.fn = "checkRepository" /\ c.method = "GET"

NamesUnset == ~(checkSecrets(secrets, processEnv) /\ checkSecrets(variables, processEnv))

\* C11: a deploy that exits because a --secret or --variable name is unset
\* exits with code 1 and has called fetch for no request at all
FailsFastOnUnsetName ==
    (cmd = "deploy" /\ result = "exited" /\ NamesUnset)
    => exitCode = 1 /\ calls = <<>>

\* C12: a missing token ends the invocation before any request; a repository
\* or branch that is not found ends it at that request; and an invocation
\* ended by a failed precondition has exit code 1 and has issued nothing but
\* the GETs of the validation: no build, no publish, no mutating request
NoPartialOrchestration ==
    /\ (runs > 0 /\ ~(TOKENS \subseteq processEnv)) => result = "exited" /\ calls = <<>>
    /\ \A k \in Idx :
          (IsCheck(calls[k]) /\ calls[k].status = 404)
          => k = Len(calls) /\ result = "exited"
    /\ result = "exited" => /\ exitCode = 1
                            /\ \A k \in Idx : IsCheck(calls[k])

\* a deploy was ended by the missing branch of the environment, after the
\* repository and the head branch were found
ExitedAtBranch ==
    /\ cmd = "deploy" /\ result = "exited"
    /\ Len(calls) = 3 /\ calls[3].what = "branch" /\ calls[3].status = 404

----------------------------------------------------------------------------
(* The pages project *)

IsListing(c) == c.fn = "deploy" /\ c.what = "projects" /\ apiReturn(c.status, "GET") # "throw"

IsCreate(c) == c.fn = "deploy" /\ c.method = "EXEC" /\ c.what = "create"

Listed(c, n) == \E i \in 1..Len(c.listed) : c.listed[i] = n

\* C20: the project-create command is run exactly when the listing, empty
\* and no-content included, holds no project of the name, and before publish
CreatesMissingProject ==
    \A k \in Idx :
        IsListing(calls[k]) =>
            /\ ~Listed(calls[k], name) =>
                  k < Len(calls) /\ IsCreate(calls[k + 1])
            /\ Listed(calls[k], name) =>
                  \A j \in Idx : ~IsCreate(calls[j])

----------------------------------------------------------------------------
(* Threshold 0 *)

Done == pc = "idle" /\ result = "done"

\* C14: a prune at threshold 0 in which every call succeeded has sent the
\* inactive POST and the DELETE for every record it listed, in the GitHub
\* registry, and the DELETE for every page deployment it listed; none of
\* them is left in its registry
FullWipeAtZero ==
    (Done /\ AllSucceeded) =>
        \A k \in Idx :
            /\ (IsPruneList(calls[k], "cleanGithubDeployments") /\ calls[k].max = 0)
               => /\ Requested("cleanGithubDeployments", calls[k].stage, "inactive")
                        = IdSet(calls[k].listed)
                  /\ Requested("cleanGithubDeployments", calls[k].stage, "deployment")
                        = IdSet(calls[k].listed)
                  /\ IdSet(calls[k].listed) \cap IdSet(ghDeployments) = {}
            /\ (IsPruneList(calls[k], "cleanPagesDeployments") /\ calls[k].max = 0)
               => /\ Requested("cleanPagesDeployments", calls[k].stage, "pages.deployment")
                        = IdSet(calls[k].listed)
                  /\ IdSet(calls[k].listed) \cap IdSet(pagesDeployments) = {}

\* the second prunes of a clean have removed records of both registries that
\* the routine prunes had kept
WipedBoth ==
    /\ Done /\ AllSucceeded
    /\ Requested("cleanGithubDeployments", "wipe", "deployment") # {}
    /\ Requested("cleanPagesDeployments", "wipe", "pages.deployment") # {}

----------------------------------------------------------------------------
(* createGithubDeployment *)

IsCreation(c) == c.fn = "initGithubDeployment" /\ c.method = "POST"

IsSuccessStatus(c) == c.fn = "createGithubDeployment" /\ c.what = "success"

IsPruneCall(c) == c.fn \in {"cleanGithubDeployments", "cleanPagesDeployments"}

\* C16: a creation POST or a status POST answered with no content is the last
\* request of the deploy, which fails: no status POST follows an empty
\* creation, and no request of a prune follows either
NoContentAborts ==
    \A k \in Idx :
        ((IsCreation(calls[k]) \/ IsSuccessStatus(calls[k])) /\ calls[k].status = 204)
        => /\ pc = "idle" /\ result = "failed"
           /\ k = Len(calls)
           /\ \A j \in Idx : j > k => ~IsSuccessStatus(calls[j]) /\ ~IsPruneCall(calls[j])

\* a creation POST has been answered with no content
EmptyCreation == \E k \in Idx : IsCreation(calls[k]) /\ calls[k].status = 204

\* C17: after a deploy with maxDeployments >= 1 that has returned, the record
\* that got the success status is in the registry with that status, and the
\* prune of the same deploy sent no inactive POST and no DELETE for it
SuccessRecordSurvives ==
    (cmd = "deploy" /\ Done /\ maxDeployments >= 1) =>
        /\ deploymentId \notin Requested("cleanGithubDeployments", "deploy", "inactive")
        /\ deploymentId \notin Requested("cleanGithubDeployments", "deploy", "deployment")
        /\ \E i \in 1..Len(ghDeployments) :
              /\ ghDeployments[i].id = deploymentId
              /\ ghDeployments[i].environment = environment
              /\ ghDeployments[i].status = "success"

----------------------------------------------------------------------------
(* The order of deploy *)

DeployRank(c) ==
    CASE c.fn = "checkRepository" -> 0
      [] c.what = "build" -> 1
      [] c.fn = "deploy" /\ c.what \in {"projects", "create"} -> 2
      [] c.what = "publish" -> 3
      [] c.fn = "addPageVariables" /\ c.method = "GET" -> 4
      [] c.fn = "addPageVariables" /\ c.method = "PATCH" -> 5
      [] c.fn = "createGithubDeployment" /\ c.method = "PUT" -> 6
      [] c.fn = "initGithubDeployment" -> 7
      [] c.fn = "createGithubDeployment" /\ c.what = "success" -> 8
      [] c.fn = "cleanGithubDeployments" -> 9
      [] c.fn = "cleanPagesDeployments" -> 10
      [] OTHER -> 11

\* the command returned, or the request was answered without an error
Completed(c) == IF c.method = "EXEC" THEN c.status = 0
                ELSE apiReturn(c.status, c.method) # "throw"

\* C19: the requests and commands of a deploy come in the order build,
\* publish, GET and PATCH of the variables, PUT of the environment,
\* get-or-create of the deployment, success status, prune of the GitHub
\* registry, prune of the Pages registry; a step starts after the one before
\* it has completed, no deployment record or status is requested before
\* publish has returned, and a deploy that returns has gone through them all
DeployInOrder ==
    cmd = "deploy" =>
        /\ \A i \in 1..(Len(calls) - 1) :
              /\ DeployRank(calls[i]) <= DeployRank(calls[i + 1])
              /\ DeployRank(calls[i]) \in 1..8 => Completed(calls[i])
        /\ \A k \in Idx :
              DeployRank(calls[k]) \in 6..8
              => \E i \in 1..(k - 1) : calls[i].what = "publish" /\ calls[i].status = 0
        /\ Done => \A r \in 1..10 : \E k \in Idx : DeployRank(calls[k]) = r

\* a deploy has returned after deleting records of both registries
DeployPruned ==
    /\ cmd = "deploy" /\ Done
    /\ Requested("cleanGithubDeployments", "deploy", "deployment") # {}
    /\ Requested("cleanPagesDeployments", "deploy", "pages.deployment") # {}

----------------------------------------------------------------------------
(* Properties of the pure functions, under PureSpec *)

PagesDescending(list) ==
    \A i, j \in 1..Len(list) : i < j => list[i].created_on > list[j].created_on

\* C13: whatever order the API returns, listGithubDeployments returns the
\* records by updated_at descending and listPagesDeployments by created_on
\* descending
ListsAreDescending ==
    pc = "listed" => /\ RecencyDescending(calls[1].listed)
                     /\ PagesDescending(calls[2].listed)

\* C18: on every list and for every threshold the two prune functions select
\* the same positions
SameSelection ==
    pc = "selected" => calls[1].listed = calls[2].listed

\* C15: 204 gives the empty result; 404 gives it for GET and DELETE; every
\* other status outside 200..299 fails; every other status gives the body
Classifies ==
    pc = "classified" =>
        LET c == calls[1]
        IN c.what = CASE c.status = 204 -> "null"
                      [] c.status = 404 /\ c.method \in {"GET", "DELETE"} -> "null"
                      [] c.status \notin 200..299 -> "throw"
                      [] OTHER -> "json"

\* a 404 answer to a POST has failed
NotFoundOnPost ==
    /\ pc = "classified"
    /\ calls[1].status = 404 /\ calls[1].method = "POST" /\ calls[1].what = "throw"

----------------------------------------------------------------------------
(* The build of deploy *)

\* the step runs the build command
BuildRuns == /\ Len(calls') = Len(calls) + 1
             /\ calls'[Len(calls')].what = "build"

\* C21: deploy runs the build command exactly when the build output directory
\* is absent: where the callback of the checks has reached the build, its next
\* step runs the build if and only if the directory does not exist.
BuildOnlyWhenAbsent == [][pc = "build" => (BuildRuns <=> ~buildDir)]_vars

----------------------------------------------------------------------------
(* Failures of the steps of deploy *)

\* the command ended with an error, or the request was answered with an
\* error status that is not the tolerated 404 of a GET or a DELETE
RequestError(c) ==
    IF c.method = "EXEC" THEN c.status # 0
    ELSE c.status >= 400 /\ ~(c.status = 404 /\ c.method \in {"GET", "DELETE"})

\* C22: every step of deploy before the prunes is fatal: a request error of
\* the projects listing, publish, the GET or PATCH of the variables, the PUT
\* of the environment, the list or creation of the deployment or the status
\* POST is the last call of the deploy, the deploy fails, and no request of a
\* prune is issued to either registry
DeployStepsAreFatal ==
    cmd = "deploy" =>
        \A k \in Idx :
            DeployRank(calls[k]) \in 2..8 /\ RequestError(calls[k])
            => /\ k = Len(calls)
               /\ pc = "idle"
               /\ result = "failed"
               /\ \A i \in Idx : ~IsPruneCall(calls[i])

\* a deploy has failed at its last step before the prunes, the status POST
DeployFailedAtStatus ==
    /\ cmd = "deploy"
    /\ result = "failed"
    /\ Len(calls) > 0
    /\ IsSuccessStatus(calls[Len(calls)])
    /\ calls[Len(calls)].status = 500

----------------------------------------------------------------------------
(* clean with its requests in flight, in both copies of the script: a request
   is issued by one step and answered by a later one *)

\* a loop that starts every callback and awaits none
loopAwaitsNever(v) == FALSE

\* for (const deployment of extraDeployments) with awaits in its body, against
\* extraDeployments.forEach(async (deployment) => { ... })
loopAwaits(v) == v = LATEST

\* the earlier copy has no prune of the Pages registry
prunesPages(v) == v = LATEST

Request(owner, fn, stg, method, what, id) ==
    [owner |-> owner, fn |-> fn, stage |-> stg, method |-> method, what |-> what,
     id |-> id]

\* an entry of the log: the request as issued (status PENDING) or as answered
Event(r, status, listed) ==
    [fn |-> r.fn, stage |-> r.stage, method |-> r.method, what |-> r.what,
     id |-> r.id, status |-> status, listed |-> listed, max |-> pruneMax]

\* records of the environment where the callbacks of a forEach run together
MaxForEach == 1

LoopInit ==
    /\ version \in Versions
    /\ environment \in Envs
    /\ head = "master"
    /\ maxDeployments \in 0..MaxM
    /\ GITHUB_REF = NULL
    /\ processEnv = TOKENS
    /\ \E n \in 0..(IF loopAwaits(version) THEN MaxGh ELSE MaxForEach) :
          ghDeployments =
              [k \in 1..n |-> GhRecord(n + 1 - k, environment, environment)]
              \o <<GhRecord(100, OtherEnv(environment), OtherEnv(environment))>>
    /\ ghEnvironments = Envs
    \* the earlier copy never looks at the page deployments
    /\ \E n \in 0..(IF prunesPages(version) THEN MaxPages ELSE 0) :
          pagesDeployments =
              [k \in 1..n |-> PageRecord(n + 1 - k, environment)]
              \o <<PageRecord(100, OtherEnv(environment))>>
    /\ pageConfigs = InitialConfigs
    /\ cmd = "clean"
    /\ pc = "gh_list"
    /\ stage = "routine"
    /\ result = "running"
    /\ runs = 1
    /\ pruneMax = maxDeployments
    /\ extraDeployments = <<>>
    /\ deploymentId = 0
    /\ pageData = NULL
    /\ patchBody = NULL
    /\ initCalls = <<>>
    /\ buildDir = FALSE
    /\ pending = {}
    /\ previous = NoTeardown
    /\ calls = <<>>

\* clean is suspended at an await
MainWaits == \E r \in pending : r.owner = "main"

\* clean has a continuation to run: it runs before the next answer is handled
MainRuns == pc # "idle" /\ ~MainWaits

\* the request clean issues at its position
MainRequest ==
    CASE pc = "gh_list" ->
            Request("main", "cleanGithubDeployments", stage, "GET", "deployments", 0)
      [] pc = "gh_inactive" ->
            Request("main", "cleanGithubDeployments", stage, "POST", "inactive",
                    Head(extraDeployments).id)
      [] pc = "gh_delete" ->
            Request("main", "cleanGithubDeployments", stage, "DELETE", "deployment",
                    Head(extraDeployments).id)
      [] pc = "pages_list" ->
            Request("main", "cleanPagesDeployments", stage, "GET", "pages.deployments", 0)
      [] pc = "pages_delete" ->
            Request("main", "cleanPagesDeployments", stage, "DELETE", "pages.deployment",
                    Head(extraDeployments).id)
      [] OTHER ->
            Request("main", "clean", stage, "DELETE", "environment", 0)

\* genericAPI up to its await of fetch
LoopIssue ==
    /\ MainRuns
    /\ pending' = pending \cup {MainRequest}
    /\ calls' = Append(calls, Event(MainRequest, PENDING, <<>>))
    /\ UNCHANGED <<options, version, previous, buildDir, remote, locals, cmd, pc, stage, result,
                   runs, initCalls>>

\* what follows the return of cleanGithubDeployments
AfterCleanGithub ==
    IF prunesPages(version)
    THEN pc' = "pages_list" /\ UNCHANGED <<stage, pruneMax, result>>
    ELSE AfterCleanPages

\* the process ends on the error
Crash == /\ pending' = {}
         /\ Throw

\* cleanGithubDeployments from the answer to its list request
LoopAnswerGithubList ==
    /\ \E r \in pending :
          /\ r.what = "deployments"
          /\ LET allDeployments == listGithubDeployments("json", environment)
                 extra == githubExtra(allDeployments, pruneMax)
                 returned == Event(r, 200, allDeployments)
                 started == [k \in 1..Len(extra) |->
                                Request("callback", "cleanGithubDeployments", stage, "POST",
                                        "inactive", extra[k].id)]
             IN IF loopAwaits(version)
                THEN /\ pending' = pending \ {r}
                     /\ calls' = Append(calls, returned)
                     /\ extraDeployments' = extra
                     /\ IF extra = <<>> THEN AfterCleanGithub
                        ELSE pc' = "gh_inactive" /\ UNCHANGED <<stage, pruneMax, result>>
                ELSE \* forEach runs each callback up to its first await and returns
                     /\ pending' = (pending \ {r}) \cup {started[k] : k \in 1..Len(extra)}
                     /\ calls' = Append(calls, returned)
                                 \o [k \in 1..Len(extra) |-> Event(started[k], PENDING, <<>>)]
                     /\ UNCHANGED extraDeployments
                     /\ AfterCleanGithub
    /\ UNCHANGED <<options, version, previous, buildDir, remote, deploymentId, pageData, patchBody,
                   cmd, runs, initCalls>>

\* the answer to an inactive status POST, and the DELETE that follows it
LoopAnswerInactive ==
    /\ \E r \in pending :
          /\ r.what = "inactive"
          /\ r.owner = "callback" => ~MainRuns
          /\ LET status == IF r.id \in IdSet(ghDeployments) THEN 201 ELSE 404
                 returned == Event(r, status, <<>>)
                 delete == [r EXCEPT !.method = "DELETE", !.what = "deployment"]
             IN IF apiReturn(status, "POST") = "throw"
                THEN /\ calls' = Append(calls, returned)
                     /\ UNCHANGED ghDeployments
                     /\ IF r.owner = "main" THEN Crash
                        ELSE \* the rejection of a callback is handled by nobody:
                             \* the process ends, or warns and goes on
                             \E ends \in BOOLEAN :
                                IF ends THEN Crash
                                ELSE pending' = pending \ {r} /\ UNCHANGED <<pc, result>>
                ELSE /\ ghDeployments' = SetStatus(ghDeployments, r.id, "inactive")
                     /\ IF r.owner = "main"
                        THEN /\ pending' = pending \ {r}
                             /\ calls' = Append(calls, returned)
                             /\ pc' = "gh_delete"
                             /\ UNCHANGED result
                        ELSE /\ pending' = (pending \ {r}) \cup {delete}
                             /\ calls' = calls \o <<returned, Event(delete, PENDING, <<>>)>>
                             /\ UNCHANGED <<pc, result>>
    /\ UNCHANGED <<options, version, previous, buildDir, ghEnvironments, pagesDeployments,
                   pageConfigs, locals, cmd, stage, runs, initCalls>>

\* the answer to the DELETE of a deployment record
LoopAnswerDelete ==
    /\ \E r \in pending :
          /\ r.what = "deployment"
          /\ r.owner = "callback" => ~MainRuns
          /\ LET status == IF r.id \in IdSet(ghDeployments) THEN 204 ELSE 404
             IN /\ calls' = Append(calls, Event(r, status, <<>>))
                /\ pending' = pending \ {r}
                /\ ghDeployments' = Without(ghDeployments, r.id)
                /\ IF r.owner = "main"
                   THEN /\ extraDeployments' = Tail(extraDeployments)
                        /\ IF Tail(extraDeployments) = <<>> THEN AfterCleanGithub
                           ELSE pc' = "gh_inactive" /\ UNCHANGED <<stage, pruneMax, result>>
                   ELSE UNCHANGED <<pc, stage, pruneMax, result, extraDeployments>>
    /\ UNCHANGED <<options, version, previous, buildDir, ghEnvironments, pagesDeployments,
                   pageConfigs, deploymentId, pageData, patchBody, cmd, runs, initCalls>>

\* cleanPagesDeployments from the answer to its list request
LoopAnswerPagesList ==
    /\ \E r \in pending :
          /\ r.what = "pages.deployments"
          /\ LET deployments == listPagesDeployments("json", pagesDeployments,
                                                    environment).items
                 extra == pagesExtra(deployments, pruneMax)
             IN /\ pending' = pending \ {r}
                /\ calls' = Append(calls, Event(r, 200, deployments))
                /\ extraDeployments' = extra
                /\ IF extra = <<>> THEN AfterCleanPages
                   ELSE pc' = "pages_delete" /\ UNCHANGED <<stage, pruneMax, result>>
    /\ UNCHANGED <<options, version, previous, buildDir, remote, deploymentId, pageData, patchBody,
                   cmd, runs, initCalls>>

\* the answer to the DELETE of a page deployment
LoopAnswerPagesDelete ==
    /\ \E r \in pending :
          /\ r.what = "pages.deployment"
          /\ LET status == IF r.id \in IdSet(pagesDeployments) THEN 204 ELSE 404
             IN /\ calls' = Append(calls, Event(r, status, <<>>))
                /\ pending' = pending \ {r}
                /\ pagesDeployments' = Without(pagesDeployments, r.id)
                /\ extraDeployments' = Tail(extraDeployments)
                /\ IF Tail(extraDeployments) = <<>> THEN AfterCleanPages
                   ELSE pc' = "pages_delete" /\ UNCHANGED <<stage, pruneMax, result>>
    /\ UNCHANGED <<options, version, previous, buildDir, ghDeployments, ghEnvironments, pageConfigs,
                   deploymentId, pageData, patchBody, cmd, runs, initCalls>>

\* the answer to the DELETE of the environment: clean returns
LoopAnswerEnvironment ==
    /\ \E r \in pending :
          /\ r.what = "environment"
          /\ LET status == IF environment \in ghEnvironments THEN 204 ELSE 404
             IN /\ calls' = Append(calls, Event(r, status, <<>>))
                /\ pending' = pending \ {r}
                /\ ghEnvironments' = ghEnvironments \ {environment}
                /\ Return
    /\ UNCHANGED <<options, version, previous, buildDir, ghDeployments, pagesDeployments,
                   pageConfigs, locals, cmd, stage, runs, initCalls>>

LoopNext ==
    \/ LoopIssue
    \/ LoopAnswerGithubList
    \/ LoopAnswerInactive
    \/ LoopAnswerDelete
    \/ LoopAnswerPagesList
    \/ LoopAnswerPagesDelete
    \/ LoopAnswerEnvironment

LoopSpec == LoopInit /\ [][LoopNext]_vars

\* the entry b is the answer to the request issued by the entry a
Answers(a, b) ==
    /\ a.status = PENDING /\ b.status # PENDING
    /\ <<a.fn, a.stage, a.method, a.what, a.id>> = <<b.fn, b.stage, b.method, b.what, b.id>>

\* the DELETE requests for records issued from entry k up to the next list
DeletesAfter(k) ==
    LET later == {j \in Idx : j > k /\ calls[j].method = "GET"}
        end == IF later = {} THEN Len(calls)
               ELSE (CHOOSE j \in later : \A i \in later : j <= i) - 1
    IN SelectSeq(SubSeq(calls, k + 1, end),
                 LAMBDA c : /\ c.method = "DELETE" /\ c.status = PENDING
                            /\ c.what # "environment")

\* C23: in the latest copy the prunes are sequential and fully awaited: at
\* most one request is in flight, a request is answered before the next one is
\* issued (so the requests for a record follow the answer to the DELETE of the
\* record before it, and whatever follows a prune follows the answer to its
\* last DELETE), and the records are deleted in the order of the list
PrunesAreSequential ==
    version = LATEST =>
        /\ Cardinality(pending) <= 1
        /\ \A k \in 1..(Len(calls) - 1) :
              calls[k].status = PENDING => Answers(calls[k], calls[k + 1])
        /\ \A k \in Idx :
              calls[k].method = "GET" /\ calls[k].status # PENDING
              => LET dels == DeletesAfter(k)
                 IN \A j \in 1..Len(dels) :
                       /\ j <= Len(calls[k].listed)
                       /\ dels[j].id = calls[k].listed[j].id

\* a clean of the latest copy has returned after deleting two records of each
\* registry, one after the other
SequentialPruneDone ==
    /\ version = LATEST
    /\ pc = "idle" /\ result = "done"
    /\ \E k \in Idx : calls[k].method = "GET" /\ Len(DeletesAfter(k)) = 2
                      /\ calls[k].fn = "cleanGithubDeployments"
    /\ \E k \in Idx : calls[k].method = "GET" /\ Len(DeletesAfter(k)) = 2
                      /\ calls[k].fn = "cleanPagesDeployments"

\* C29: in the earlier copy the clean of a preview environment orders its side
\* effects: the list request of the second prune is issued after every DELETE
\* of the first prune was answered, and the DELETE of the environment is
\* issued after the inactive POST and the DELETE of every record were answered
ForEachTeardownOrdered ==
    version = EARLIER /\ environment # head =>
        \A k \in Idx :
            (/\ calls[k].status = PENDING
             /\ \/ calls[k].method = "GET" /\ calls[k].stage = "wipe"
                \/ calls[k].what = "environment")
            => \A i \in 1..(k - 1) :
                  (/\ calls[i].what = "inactive" /\ calls[i].status = PENDING
                   /\ calls[k].what = "environment" \/ calls[i].stage = "routine")
                  => \E j \in (i + 1)..(k - 1) :
                        /\ calls[j].what = "deployment" /\ calls[j].status # PENDING
                        /\ calls[j].id = calls[i].id /\ calls[j].stage = calls[i].stage

----------------------------------------------------------------------------
(* listPagesDeployments on any result array *)

WellFormed(list) == \A k \in 1..Len(list) : list[k].trigger = "branch"

\* C24: listPagesDeployments with an environment returns exactly the
\* deployments whose deployment_trigger.metadata.branch equals it, and with a
\* null environment it returns every deployment, as a list, without failing
ListsPagesOfEnvironment ==
    pc = "pages_listed" /\ WellFormed(calls[1].result) =>
        LET c == calls[1]
            wanted == IF c.environment = NULL THEN c.result
                      ELSE SelectSeq(c.result, LAMBDA x : x.branch = c.environment)
        IN /\ c.type = "array"
           /\ Len(c.listed) = Len(wanted)
           /\ IdSet(c.listed) = IdSet(wanted)

\* C25: a page deployment whose trigger metadata is absent counts as one of
\* branch null: listPagesDeployments with an environment does not fail on it
\* and leaves it out of the list
AbsentMetadataIsNullBranch ==
    pc = "pages_listed" /\ calls[1].environment # NULL =>
        LET c == calls[1]
        IN /\ c.type = "array"
           /\ \A k \in 1..Len(c.listed) : c.listed[k].trigger = "branch"

----------------------------------------------------------------------------
(* The env_vars of the PATCH body *)

Range(f) == {f[k] : k \in DOMAIN f}

\* the section that holds the new env_vars, and the other one as it was
PlacedUnder(configs, section, sibling) ==
    /\ section \in DOMAIN configs
    /\ sibling \in DOMAIN configs => configs[sibling] = pageConfigs[sibling]

PlacedBySection(configs) ==
    IF environment = head THEN PlacedUnder(configs, "production", "preview")
    ELSE PlacedUnder(configs, "preview", "production")

newVars(configs) == configs[IF environment = head THEN "production" ELSE "preview"].env_vars

IsPlain(held, n) == n \in DOMAIN held /\ held[n] = [value |-> procEnv[n]]

IsSecret(held, n) ==
    n \in DOMAIN held /\ held[n] = [value |-> procEnv[n], type |-> "secret_text"]

\* C26: the new env_vars of the PATCH body are under production if and only
\* if environment = head, under preview otherwise, and hold every supplied
\* variable as a plain value and every supplied secret tagged as a secret, a
\* name supplied both ways being held as a secret
PatchPlacesVariables ==
    pc = "patched" =>
        LET c == calls[1]
            configs == c.body.deployment_configs
        IN /\ PlacedBySection(configs)
           /\ \A n \in Range(c.variables) \ Range(c.secrets) : IsPlain(newVars(configs), n)
           /\ \A n \in Range(c.secrets) : IsSecret(newVars(configs), n)

\* C26 as stated: every supplied variable is held as a plain value
PatchHoldsEveryVariablePlain ==
    pc = "patched" =>
        LET c == calls[1]
            configs == c.body.deployment_configs
        IN /\ PlacedBySection(configs)
           /\ \A n \in Range(c.variables) : IsPlain(newVars(configs), n)
           /\ \A n \in Range(c.secrets) : IsSecret(newVars(configs), n)

\* the body for the head branch with one variable and one secret
PatchedProduction ==
    /\ pc = "patched"
    /\ environment = head
    /\ calls[1].variables = <<"MODE">> /\ calls[1].secrets = <<"API_KEY">>
    /\ DOMAIN newVars(calls[1].body.deployment_configs) = {"MODE", "API_KEY"}

----------------------------------------------------------------------------
(* The scope of the prunes *)

\* the latest list of fn before entry k
ListBefore(k, fn) ==
    LET lists == {j \in 1..(k - 1) : calls[j].fn = fn /\ calls[j].method = "GET"}
    IN IF lists = {} THEN <<>>
       ELSE calls[CHOOSE j \in lists : \A i \in lists : i <= j].listed

\* C28: pruning and teardown touch one environment: the inactive POSTs and
\* the DELETEs of deployment records go to records listed for the environment
\* of the invocation, the DELETEs of page deployments to deployments of its
\* branch, only its environment resource is deleted, and the records and the
\* resource of the other environment stay as they were
PruneIsScoped ==
    LET other == OtherEnv(environment)
    IN /\ SelectSeq(ghDeployments, LAMBDA r : r.environment = other)
             = <<GhRecord(100, other, other)>>
       /\ SelectSeq(pagesDeployments, LAMBDA x : x.branch = other)
             = <<PageRecord(100, other)>>
       /\ other \in ghEnvironments
       /\ \A k \in Idx :
             /\ IsPruneCall(calls[k]) /\ calls[k].method = "GET"
                => \A j \in 1..Len(calls[k].listed) :
                      IF calls[k].fn = "cleanGithubDeployments"
                      THEN calls[k].listed[j].environment = environment
                      ELSE calls[k].listed[j].branch = environment
             /\ IsPruneCall(calls[k]) /\ calls[k].method \in {"POST", "DELETE"}
                => calls[k].id \in IdSet(ListBefore(k, calls[k].fn))

\* a teardown has deleted records of both registries and the environment
\* while the other environment has its own
ScopedTeardownDone ==
    /\ cmd = "clean" /\ Done
    /\ environment \notin ghEnvironments
    /\ \E k \in Idx : IsGithubDelete(calls[k])
    /\ \E k \in Idx : IsPagesDelete(calls[k])

----------------------------------------------------------------------------
(* The teardown run twice *)

\* C27: teardown is idempotent: a clean of a preview environment that follows
\* one which returned with every call answered with success sends no inactive
\* POST and no DELETE of a record, leaves both registries as the first one left
\* them, gets 404 for its DELETE of the environment, and returns without an
\* error when its other requests are answered with success
TeardownIsIdempotent ==
    previous.teardown =>
        /\ \A k \in Idx : calls[k].what \notin {"inactive", "deployment", "pages.deployment"}
        /\ <<ghDeployments, pagesDeployments, ghEnvironments>> = previous.left
        /\ \A k \in Idx : calls[k].what = "environment" => calls[k].status = 404
        /\ (/\ pc = "idle"
            /\ TOKENS \subseteq processEnv
            /\ \A k \in Idx : \/ calls[k].status = 200
                              \/ calls[k].what = "environment" /\ calls[k].status = 404)
           => result = "done"

\* the second teardown has returned after the 404 of the environment
SecondTeardownDone ==
    /\ previous.teardown
    /\ pc = "idle" /\ result = "done"
    /\ Len(calls) > 0
    /\ calls[Len(calls)].what = "environment" /\ calls[Len(calls)].status = 404

====
